---- MODULE Spec2Model ----
(***************************************************************************)
(* Rumble Video Downloader API (src/main.py): the /api/rumble-urls and     *)
(* /api/rumble-zip request handlers, the helpers they call, the local      *)
(* staging storage under tmp/ and the R2 object store.                     *)
(*                                                                         *)
(* External collaborators (yt-dlp, the file system, boto3) are modelled    *)
(* by the outcomes the code distinguishes: a call returns or raises, and   *)
(* an interrupted yt-dlp download leaves some of the files the code looks  *)
(* for.  uuid4 is modelled as drawing an identifier no other job holds.    *)
(***************************************************************************)
EXTENDS Integers, Sequences, FiniteSets, TLC

\* ------------------------------------------------------------- bounds
MaxReq == 2
MaxEntries == 3

\* ---------------------------------------------------- program constants
MAX_VIDEOS_MIN == 1
MAX_VIDEOS_MAX == 10

Jobs == {"j1", "j2"}
Uuids == {"a", "b"}
NoId == "-"
Absent == <<>>

Min(a, b) == IF a < b THEN a ELSE b

\* ------------------------------------------------------ request models

\* page_url values, by the parts validate_url's pattern looks at.
PageUrls ==
    { [blank |-> TRUE,  scheme |-> "",      host |-> "",       padded |-> FALSE],
      [blank |-> FALSE, scheme |-> "ftp",   host |-> "domain", padded |-> FALSE],
      [blank |-> FALSE, scheme |-> "https", host |-> "",       padded |-> FALSE],
      [blank |-> FALSE, scheme |-> "https", host |-> "domain", padded |-> FALSE],
      [blank |-> FALSE, scheme |-> "https", host |-> "domain", padded |-> TRUE] }

strip(v) == [v EXCEPT !.padded = FALSE]

\* RumbleRequest.validate_url: the stripped URL, or a ValueError.
validate_url(v) ==
    IF v.blank
    THEN [ok |-> FALSE, value |-> v]
    ELSE IF ~(v.scheme \in {"http", "https"} /\ v.host \in {"domain", "localhost", "ipv4"})
         THEN [ok |-> FALSE, value |-> v]
         ELSE [ok |-> TRUE, value |-> strip(v)]

\* validate_max_videos without its upper bound
validate_max_videos_no_cap(v) ==
    IF v < MAX_VIDEOS_MIN THEN FALSE
    ELSE TRUE

\* RumbleRequestWithLimit.validate_max_videos
validate_max_videos(v) ==
    IF v < MAX_VIDEOS_MIN THEN FALSE
    ELSE IF v > MAX_VIDEOS_MAX THEN FALSE
    ELSE TRUE

MaxVideosInputs == {0} \cup (1..MaxReq) \cup {MAX_VIDEOS_MAX, MAX_VIDEOS_MAX + 1}

\* ----------------------------------------- listing capability (yt-dlp)

Url(u) == [site |-> "", path |-> u]
RumbleUrl(id) == [site |-> "https://rumble.com/", path |-> id]

Tok(prefix, i) == <<prefix, i>>

\* One entry of result["entries"]: None, or a dict that may hold "url", "id".
EntryAt(kind, i) ==
    CASE kind = "none"  -> [falsy |-> TRUE,  url |-> Absent, id |-> Absent]
      [] kind = "url"   -> [falsy |-> FALSE, url |-> Tok("u", i), id |-> Absent]
      [] kind = "id"    -> [falsy |-> FALSE, url |-> Absent, id |-> Tok("v", i)]
      [] kind = "both"  -> [falsy |-> FALSE, url |-> Tok("u", i), id |-> Tok("v", i)]
      [] OTHER          -> [falsy |-> FALSE, url |-> Absent, id |-> Absent]

EntryKinds == {"none", "url", "id", "both", "bare"}

EntryLists(kinds) ==
    UNION { { [i \in 1..n |-> EntryAt(k[i], i)] : k \in [1..n -> kinds] } : n \in 0..MaxEntries }

Raises == [tag |-> "raise", has_entries |-> FALSE, entries |-> <<>>, url |-> Absent, id |-> Absent]
NoData == [tag |-> "none",  has_entries |-> FALSE, entries |-> <<>>, url |-> Absent, id |-> Absent]

Info(has, es, u, i) == [tag |-> "info", has_entries |-> has, entries |-> es, url |-> u, id |-> i]

OwnRefs == { <<Absent, Absent>>, <<Tok("u", 0), Absent>>, <<Absent, Tok("v", 0)>>,
             <<Tok("u", 0), Tok("v", 0)>> }

\* Everything ydl.extract_info may do: raise, return nothing, a collection, a single page.
AllListings ==
    {Raises, NoData}
    \cup { Info(TRUE, es, o[1], o[2]) : es \in EntryLists(EntryKinds), o \in OwnRefs }
    \cup { Info(FALSE, <<>>, o[1], o[2]) : o \in OwnRefs }

\* The listings the request handlers are run on.
JobListings ==
    {Raises, NoData}
    \cup { Info(TRUE, es, Absent, i) : es \in EntryLists({"url"}), i \in {Absent, Tok("v", 0)} }
    \cup { Info(FALSE, <<>>, Tok("u", 0), Absent) }

\* ydl_opts of extract_video_urls
ExtractOptions(max_videos) ==
    [extract_flat |-> TRUE, playlistend |-> max_videos, retries |-> 3, socket_timeout |-> 15]

RECURSIVE CollectEntries(_)
CollectEntries(entries) ==
    IF entries = <<>> THEN <<>>
    ELSE LET entry == Head(entries)
             rest  == CollectEntries(Tail(entries))
         IN IF entry.falsy THEN rest
            ELSE IF entry.url # Absent THEN <<Url(entry.url)>> \o rest
            ELSE IF entry.id # Absent THEN <<RumbleUrl(entry.id)>> \o rest
            ELSE rest

\* the list returned without the slice
Truncate_none(s, n) == s

\* video_urls[:max_videos]
Truncate(s, n) == SubSeq(s, 1, Min(n, Len(s)))

\* the single-page branch without its elif "id" in result
CollectUrls_url_only(result) ==
    IF result.has_entries /\ result.entries # <<>>
    THEN CollectEntries(result.entries)
    ELSE IF result.url # Absent THEN <<Url(result.url)>>
         ELSE <<>>

\* The branch of extract_video_urls that fills video_urls.
CollectUrls(result) ==
    IF result.has_entries /\ result.entries # <<>>
    THEN CollectEntries(result.entries)
    ELSE IF result.url # Absent THEN <<Url(result.url)>>
         ELSE IF result.id # Absent THEN <<RumbleUrl(result.id)>>
         ELSE <<>>

extract_video_urls(result, max_videos) ==
    IF result.tag = "raise" THEN [raised |-> TRUE, urls |-> <<>>]
    ELSE IF result.tag = "none" THEN [raised |-> TRUE, urls |-> <<>>]
    ELSE [raised |-> FALSE, urls |-> Truncate(CollectUrls(result), max_videos)]

\* ------------------------------------------------ local storage (tmp/)

\* A file of a job's staging directory: tmp/<dir>/video<idx>.mp4<ext>
File(id, i, ext) == [dir |-> id, idx |-> i, ext |-> ext]

\* output_path of item idx: os.path.join(temp_dir, f"video{idx:02d}.mp4")
output_path(id, i) == File(id, i, "")

EmptyFs == [dirs |-> {}, files |-> {}, zips |-> {}]

\* os.makedirs(temp_dir, exist_ok=True)
makedirs(fs, id) == [fs EXCEPT !.dirs = @ \cup {id}]

\* rmtree called on tmp itself rather than on the job's directory
rmtree_tmp(fs, id) == [fs EXCEPT !.dirs = {}, !.files = {}]

\* shutil.rmtree(temp_dir, ignore_errors=True)
rmtree(fs, id) ==
    [fs EXCEPT !.dirs = @ \ {id}, !.files = {f \in @ : f.dir # id}]

\* if os.path.exists(zip_path): os.remove(zip_path)
remove_zip(fs, id) == [fs EXCEPT !.zips = {z \in @ : z.id # id}]

\* if os.path.exists(p): os.remove(p)
remove_file(fs, f) == [fs EXCEPT !.files = @ \ {f}]

\* cleanup_temp_files without its second step: the archive is left behind
cleanup_temp_files_dir_only(fs, id) == rmtree(fs, id)

\* cleanup_temp_files(temp_dir, zip_path): the background task
cleanup_temp_files(fs, id) == remove_zip(rmtree(fs, id), id)

\* the except clauses without their os.remove(zip_path)
handler_cleanup_dir_only(fs, id) == rmtree(fs, id)

\* the two except clauses of download_rumble_videos, before they raise
handler_cleanup(fs, id) == remove_zip(rmtree(fs, id), id)

FilesOf(fs, id) == {f \in fs.files : f.dir = id}
ItemFiles(fs, id, i) == {f \in fs.files : f.dir = id /\ f.idx = i}
ZipExists(fs, id) == \E z \in fs.zips : z.id = id

\* ------------------------------------------------ download_video

\* the list with one suffix forgotten
partial_extensions_short == {".part", ".temp", ".download"}

partial_extensions == {".part", ".ytdl", ".temp", ".download"}

\* The suffixes yt-dlp appends to the output path while it writes.
WriterSuffixes == {".part", ".ytdl", ".temp", ".download"}

\* What ydl.download may leave behind when it raises: nothing, the output
\* file or one of its suffixed working files, or all of them.
WriterLeftovers ==
    {{}} \cup {{e} : e \in {""} \cup WriterSuffixes} \cup {{""} \cup WriterSuffixes}

\* The outcomes of one ydl.download call: it returns, or raises with leftovers.
DownloadOutcomes ==
    {[ok |-> TRUE, left |-> {}]} \cup {[ok |-> FALSE, left |-> l] : l \in WriterLeftovers}

\* ydl.download([video_url]) with outtmpl = output_path
ydl_download(fs, id, i, ok, left) ==
    IF ok
    THEN [fs EXCEPT !.files = @ \cup {output_path(id, i)}]
    ELSE [fs EXCEPT !.files = @ \cup {File(id, i, e) : e \in left}]

\* the except branch of download_video
remove_partials(fs, id, i) ==
    LET fs1 == remove_file(fs, output_path(id, i))
    IN [fs1 EXCEPT !.files = @ \ {File(id, i, e) : e \in partial_extensions}]

\* download_video with an except branch that raises again after its cleanup
download_video_reraise(fs, id, i, ok, left) ==
    LET fs1 == ydl_download(fs, id, i, ok, left)
    IN IF ok
       THEN [fs |-> fs1, ret |-> TRUE, raised |-> FALSE]
       ELSE [fs |-> remove_partials(fs1, id, i), ret |-> FALSE, raised |-> TRUE]

\* download_video(video_url, output_path, video_number): the storage it leaves,
\* the boolean it returns, and whether an exception leaves it (none does: the
\* except branch returns False)
download_video(fs, id, i, ok, left) ==
    LET fs1 == ydl_download(fs, id, i, ok, left)
    IN IF ok
       THEN [fs |-> fs1, ret |-> TRUE, raised |-> FALSE]
       ELSE [fs |-> remove_partials(fs1, id, i), ret |-> FALSE, raised |-> FALSE]

\* ------------------------------------------------ create_zip_file, upload

\* arcname = os.path.basename(file)
arcname(f) == <<f.idx, f.ext>>

\* create_zip_file counting from 1
create_zip_file_miscount(fs, id, outcome) ==
    LET members == {arcname(f) : f \in FilesOf(fs, id)}
    IN CASE outcome = "ok" ->
              [fs |-> [fs EXCEPT !.zips = {z \in @ : z.id # id}
                                   \cup {[id |-> id, members |-> members, complete |-> TRUE]}],
               raised |-> FALSE, file_count |-> Cardinality(FilesOf(fs, id)) + 1]
         [] outcome = "write" ->
              [fs |-> [fs EXCEPT !.zips = {z \in @ : z.id # id}
                                   \cup {[id |-> id, members |-> {}, complete |-> FALSE]}],
               raised |-> TRUE, file_count |-> 0]
         [] OTHER -> [fs |-> fs, raised |-> TRUE, file_count |-> 0]

\* create_zip_file returning although writing the archive failed part-way
create_zip_file_partial(fs, id, outcome) ==
    IF outcome = "open"
    THEN [fs |-> fs, raised |-> TRUE, file_count |-> 0]
    ELSE [fs |-> [fs EXCEPT !.zips = {z \in @ : z.id # id}
                     \cup {[id |-> id, members |-> {arcname(f) : f \in FilesOf(fs, id)},
                            complete |-> outcome = "ok"]}],
          raised |-> FALSE, file_count |-> Cardinality(FilesOf(fs, id))]

\* create_zip_file(source_dir, zip_path): "ok" writes every file under
\* source_dir; "open" fails before the archive exists; "write" fails with a
\* partial archive on disk.
create_zip_file(fs, id, outcome) ==
    LET members == {arcname(f) : f \in FilesOf(fs, id)}
    IN CASE outcome = "ok" ->
              [fs |-> [fs EXCEPT !.zips = {z \in @ : z.id # id}
                                   \cup {[id |-> id, members |-> members, complete |-> TRUE]}],
               raised |-> FALSE, file_count |-> Cardinality(FilesOf(fs, id))]
         [] outcome = "write" ->
              [fs |-> [fs EXCEPT !.zips = {z \in @ : z.id # id}
                                   \cup {[id |-> id, members |-> {}, complete |-> FALSE]}],
               raised |-> TRUE, file_count |-> 0]
         [] OTHER -> [fs |-> fs, raised |-> TRUE, file_count |-> 0]

ZipOutcomes == {"ok", "open", "write"}

\* r2_key = f"rumble_zips/{random_id}.zip"
r2_key(id) == <<"rumble_zips", id>>

\* upload_zip_to_r2 with an except branch that does not raise again
upload_zip_to_r2_swallow(bucket, id, ok) ==
    IF ok THEN [bucket |-> bucket \cup {r2_key(id)}, raised |-> FALSE]
    ELSE [bucket |-> bucket, raised |-> FALSE]

\* upload_zip_to_r2(zip_path, key): the bucket it leaves, and whether it raised
upload_zip_to_r2(bucket, id, ok) ==
    IF ok THEN [bucket |-> bucket \cup {r2_key(id)}, raised |-> FALSE]
    ELSE [bucket |-> bucket, raised |-> TRUE]

\* ------------------------------------------------ exceptions to responses

HTTPException(code, detail) ==
    [type |-> "HTTPException", status_code |-> code, detail |-> detail]
OtherException == [type |-> "Exception", status_code |-> 0, detail |-> ""]

\* the except clauses with "except Exception" catching everything
handle_exception_generic(exc) == HTTPException(500, "internal server error")

\* The except clauses of download_rumble_videos (lines 369-382): an
\* HTTPException is raised again as it is, anything else becomes a 500.
handle_exception(exc) ==
    IF exc.type = "HTTPException"
    THEN exc
    ELSE HTTPException(500, "internal server error")

\* the emptiness check left out
no_videos_never(urls) == FALSE

\* if not video_urls (lines 267, 314)
no_videos(urls) == urls = <<>>

\* the check written so that it never fires
all_failed_never(n) == n < 0

\* if successful_downloads == 0 (line 332)
all_failed(n) == n = 0

\* ------------------------------------------------------------- state

VARIABLES
    pc,                    \* where each request is: idle, extract, download, zip, upload, sent, done
    received,              \* the request as it arrived: what page_url is and max_videos
    endpoint,              \* "zip" (/api/rumble-zip) or "urls" (/api/rumble-urls)
    page_url,              \* request.page_url after validation
    max_videos,            \* request.max_videos
    random_id,             \* str(uuid.uuid4()) of a zip job
    video_urls,            \* the list extract_video_urls returned
    idx,                   \* the download loop's position (enumerate(video_urls, 1))
    successful_downloads,
    results,               \* per attempted item, in order: its index and download_video's result
    file_count,
    status,                \* HTTP status of the response; 0 while there is none
    detail,                \* the detail of an error response
    resolved,              \* how extract_video_urls ended: pending, raised, returned
    body,                  \* what the success response reports
    background,            \* background_tasks: cleanup_temp_files is queued
    fs,                    \* local storage under tmp/
    bucket,                \* keys present in the R2 bucket
    ex_state,              \* a direct call of extract_video_urls: its input, options and result
    ex_out

jobvars == <<pc, received, endpoint, page_url, max_videos, random_id, video_urls, idx,
             successful_downloads, results, file_count, status, detail, resolved,
             body, background, fs, bucket>>
exvars == <<ex_state, ex_out>>
vars == <<jobvars, exvars>>

\* The request body as sent: the parts of page_url the pattern looks at
\* (surrounding blanks aside) and max_videos.
Received(url, mv) ==
    [url |-> [blank |-> url.blank, scheme |-> url.scheme, host |-> url.host],
     max_videos |-> mv]

NoRequest == [url |-> [blank |-> TRUE, scheme |-> "", host |-> ""], max_videos |-> 0]
NoBody == [file_count |-> 0, count |-> 0, urls |-> <<>>]
NoCall == [called |-> FALSE, max_videos |-> 0, result |-> NoData, playlistend |-> 0]
NoOut == [raised |-> FALSE, urls |-> <<>>]

JobInit ==
    /\ pc = [j \in Jobs |-> "idle"]
    /\ received = [j \in Jobs |-> NoRequest]
    /\ endpoint = [j \in Jobs |-> "none"]
    /\ page_url = [j \in Jobs |-> strip(CHOOSE u \in PageUrls : u.blank)]
    /\ max_videos = [j \in Jobs |-> 0]
    /\ random_id = [j \in Jobs |-> NoId]
    /\ video_urls = [j \in Jobs |-> <<>>]
    /\ idx = [j \in Jobs |-> 0]
    /\ successful_downloads = [j \in Jobs |-> 0]
    /\ results = [j \in Jobs |-> <<>>]
    /\ file_count = [j \in Jobs |-> 0]
    /\ status = [j \in Jobs |-> 0]
    /\ detail = [j \in Jobs |-> ""]
    /\ resolved = [j \in Jobs |-> "pending"]
    /\ body = [j \in Jobs |-> NoBody]
    /\ background = [j \in Jobs |-> FALSE]
    /\ fs = EmptyFs
    /\ bucket = {}

ExInit ==
    /\ ex_state = NoCall
    /\ ex_out = NoOut

Init == JobInit /\ ExInit

\* ------------------------------------------------------------- steps

\* every handler creating a staging directory
has_staging_always(ep) == TRUE

\* Only download_rumble_videos creates tmp/<random_id> (lines 296-301);
\* get_rumble_video_urls touches no local storage.
has_staging(ep) == ep = "zip"

\* The error response FastAPI sends for an HTTPException leaving a handler.
Respond(j, exc) ==
    /\ status' = [status EXCEPT ![j] = exc.status_code]
    /\ detail' = [detail EXCEPT ![j] = exc.detail]
    /\ pc' = [pc EXCEPT ![j] = "done"]

\* An exception raised inside the try block of download_rumble_videos, with
\* the storage fs1 it was raised on.
Fail(j, exc, fs1) ==
    /\ fs' = handler_cleanup(fs1, random_id[j])
    /\ Respond(j, handle_exception(exc))

\* A request arrives.  Pydantic validates it before the handler runs (a
\* ValueError of a validator is answered by FastAPI with 422 and the handler
\* is not entered); the zip handler then creates tmp/<random_id> (lines
\* 296-301).
Request(j) ==
    /\ pc[j] = "idle"
    /\ \E ep \in {"zip", "urls"}, url \in PageUrls, mv \in MaxVideosInputs :
         LET v == validate_url(url)
         IN /\ received' = [received EXCEPT ![j] = Received(url, mv)]
            /\ IF ~(v.ok /\ validate_max_videos(mv))
               THEN /\ Respond(j, HTTPException(422, "validation error"))
                    /\ endpoint' = [endpoint EXCEPT ![j] = ep]
                    /\ UNCHANGED <<page_url, max_videos, random_id, fs>>
               ELSE /\ endpoint' = [endpoint EXCEPT ![j] = ep]
                    /\ page_url' = [page_url EXCEPT ![j] = v.value]
                    /\ max_videos' = [max_videos EXCEPT ![j] = mv]
                    /\ pc' = [pc EXCEPT ![j] = "extract"]
                    /\ UNCHANGED <<status, detail>>
                    /\ IF has_staging(ep)
                       THEN \E id \in Uuids \ {random_id[k] : k \in Jobs} :
                              /\ random_id' = [random_id EXCEPT ![j] = id]
                              /\ fs' = makedirs(fs, id)
                       ELSE UNCHANGED <<random_id, fs>>
    /\ UNCHANGED <<video_urls, idx, successful_downloads, results, file_count, resolved,
                   body, background, bucket, exvars>>

\* get_rumble_video_urls, lines 259-270
ListUrls(j) ==
    /\ pc[j] = "extract" /\ endpoint[j] = "urls"
    /\ \E result \in JobListings :
         LET r == extract_video_urls(result, max_videos[j])
         IN /\ resolved' = [resolved EXCEPT ![j] = IF r.raised THEN "raised" ELSE "returned"]
            /\ IF r.raised
               THEN /\ Respond(j, HTTPException(502, "failed to extract videos from page"))
                    /\ UNCHANGED <<video_urls, body>>
               ELSE IF no_videos(r.urls)
               THEN /\ Respond(j, HTTPException(400, "no videos found on page"))
                    /\ UNCHANGED <<video_urls, body>>
               ELSE /\ video_urls' = [video_urls EXCEPT ![j] = r.urls]
                    /\ body' = [body EXCEPT ![j] =
                                  [NoBody EXCEPT !.count = Len(r.urls), !.urls = r.urls]]
                    /\ status' = [status EXCEPT ![j] = 200]
                    /\ pc' = [pc EXCEPT ![j] = "done"]
                    /\ UNCHANGED detail
    /\ UNCHANGED <<received, endpoint, page_url, max_videos, random_id, idx, successful_downloads,
                   results, file_count, background, fs, bucket, exvars>>

\* download_rumble_videos, step 1 (lines 304-319)
Extract(j) ==
    /\ pc[j] = "extract" /\ endpoint[j] = "zip"
    /\ \E result \in JobListings :
         LET r == extract_video_urls(result, max_videos[j])
         IN /\ resolved' = [resolved EXCEPT ![j] = IF r.raised THEN "raised" ELSE "returned"]
            /\ IF r.raised
               THEN /\ Fail(j, HTTPException(502, "failed to extract videos from page"), fs)
                    /\ UNCHANGED <<video_urls, idx>>
               ELSE IF no_videos(r.urls)
               THEN /\ Fail(j, HTTPException(400, "no videos found on page"), fs)
                    /\ UNCHANGED <<video_urls, idx>>
               ELSE /\ video_urls' = [video_urls EXCEPT ![j] = r.urls]
                    /\ idx' = [idx EXCEPT ![j] = 1]
                    /\ pc' = [pc EXCEPT ![j] = "download"]
                    /\ UNCHANGED <<status, detail, fs>>
    /\ UNCHANGED <<received, endpoint, page_url, max_videos, random_id, successful_downloads,
                   results, file_count, body, background, bucket, exvars>>

\* download_rumble_videos, step 2: one pass of the loop (lines 325-328) and,
\* after the last item, the check of lines 332-337
Download(j) ==
    /\ pc[j] = "download"
    /\ idx[j] <= Len(video_urls[j])
    /\ \E o \in DownloadOutcomes :
         LET d == download_video(fs, random_id[j], idx[j], o.ok, o.left)
             n == IF d.ret THEN successful_downloads[j] + 1 ELSE successful_downloads[j]
         IN IF d.raised
            THEN /\ Fail(j, OtherException, d.fs)
                 /\ UNCHANGED <<successful_downloads, results, idx>>
            ELSE /\ successful_downloads' = [successful_downloads EXCEPT ![j] = n]
                 /\ results' = [results EXCEPT ![j] = Append(@, [idx |-> idx[j], ok |-> d.ret])]
                 /\ idx' = [idx EXCEPT ![j] = @ + 1]
                 /\ IF idx[j] < Len(video_urls[j])
                    THEN /\ fs' = d.fs
                         /\ UNCHANGED <<pc, status, detail>>
                    ELSE IF all_failed(n)
                    THEN Fail(j, HTTPException(500, "could not download any videos"), d.fs)
                    ELSE /\ fs' = d.fs
                         /\ pc' = [pc EXCEPT ![j] = "zip"]
                         /\ UNCHANGED <<status, detail>>
    /\ UNCHANGED <<received, endpoint, page_url, max_videos, random_id, video_urls, file_count,
                   resolved, body, background, bucket, exvars>>

\* download_rumble_videos, step 3 (lines 340-345)
Zip(j) ==
    /\ pc[j] = "zip"
    /\ \E outcome \in ZipOutcomes :
         LET z == create_zip_file(fs, random_id[j], outcome)
         IN IF z.raised
            THEN /\ Fail(j, OtherException, z.fs)
                 /\ UNCHANGED file_count
            ELSE /\ fs' = z.fs
                 /\ file_count' = [file_count EXCEPT ![j] = z.file_count]
                 /\ pc' = [pc EXCEPT ![j] = "upload"]
                 /\ UNCHANGED <<status, detail>>
    /\ UNCHANGED <<received, endpoint, page_url, max_videos, random_id, video_urls, idx,
                   successful_downloads, results, resolved, body, background, bucket,
                   exvars>>

\* download_rumble_videos, steps 4-6 (lines 348-367)
Upload(j) ==
    /\ pc[j] = "upload"
    /\ \E ok \in BOOLEAN :
         LET u == upload_zip_to_r2(bucket, random_id[j], ok)
         IN IF u.raised
            THEN /\ Fail(j, OtherException, fs)
                 /\ UNCHANGED <<bucket, background, body>>
            ELSE /\ bucket' = u.bucket
                 /\ background' = [background EXCEPT ![j] = TRUE]
                 /\ body' = [body EXCEPT ![j] = [NoBody EXCEPT !.file_count = file_count[j]]]
                 /\ status' = [status EXCEPT ![j] = 200]
                 /\ pc' = [pc EXCEPT ![j] = "sent"]
                 /\ UNCHANGED <<fs, detail>>
    /\ UNCHANGED <<received, endpoint, page_url, max_videos, random_id, video_urls, idx,
                   successful_downloads, results, file_count, resolved, exvars>>

\* The background task queued at line 354 runs after the response is sent.
BackgroundCleanup(j) ==
    /\ pc[j] = "sent"
    /\ background[j]
    /\ fs' = cleanup_temp_files(fs, random_id[j])
    /\ background' = [background EXCEPT ![j] = FALSE]
    /\ pc' = [pc EXCEPT ![j] = "done"]
    /\ UNCHANGED <<received, endpoint, page_url, max_videos, random_id, video_urls, idx,
                   successful_downloads, results, file_count, status, detail, resolved,
                   body, bucket, exvars>>

Next ==
    \E j \in Jobs :
        \/ Request(j)
        \/ ListUrls(j)
        \/ Extract(j)
        \/ Download(j)
        \/ Zip(j)
        \/ Upload(j)
        \/ BackgroundCleanup(j)

Spec == Init /\ [][Next]_vars

\* ------------------------------------ extract_video_urls called directly

CallExtract ==
    /\ ~ex_state.called
    /\ \E mv \in (MAX_VIDEOS_MIN..MaxReq) \cup {MAX_VIDEOS_MAX}, result \in AllListings :
         /\ ex_state' = [called |-> TRUE, max_videos |-> mv, result |-> result,
                         playlistend |-> ExtractOptions(mv).playlistend]
         /\ ex_out' = extract_video_urls(result, mv)
    /\ UNCHANGED jobvars

ExtractNext == CallExtract

ExtractSpec == Init /\ [][ExtractNext]_vars

\* =================================================================
\*  Properties
\* =================================================================

ZipJobs == {j \in Jobs : endpoint[j] = "zip" /\ random_id[j] # NoId}

\* Neither tmp/<job_id> (nor a file in it) nor tmp/<job_id>.zip exists.
Clean(j) ==
    /\ random_id[j] \notin fs.dirs
    /\ FilesOf(fs, random_id[j]) = {}
    /\ ~ZipExists(fs, random_id[j])

FailureStatus == {400, 502, 500}

Failures(j) == {i \in 1..Len(results[j]) : ~results[j][i].ok}
Successes(j) == {i \in 1..Len(results[j]) : results[j][i].ok}

\* The download loop of job j has ended.
Downloaded(j) == video_urls[j] # <<>> /\ pc[j] # "download"

\* C1 as stated: once a /api/rumble-zip job has an outcome (the 200 response
\* or a 400, 502 or 500 failure), its staging directory and its archive are
\* gone from local storage.
C1_CleanAtOutcome ==
    \A j \in ZipJobs : status[j] \in FailureStatus \cup {200} => Clean(j)

\* C1 amended: a job that ended in a 400, 502 or 500 failure has no staging
\* directory and no archive when the failure is returned; a job that returned
\* the 200 response has none once the background cleanup task it queued has
\* run (until then both are still on local storage).
C1_CleanAfterCleanup ==
    \A j \in ZipJobs :
        /\ status[j] \in FailureStatus => Clean(j)
        /\ status[j] = 200 /\ ~background[j] => Clean(j)
        /\ status[j] = 200 /\ background[j] =>
              random_id[j] \in fs.dirs /\ ZipExists(fs, random_id[j])

C1_Witness ==
    \E j, k \in ZipJobs :
        /\ status[j] = 200 /\ pc[j] = "done" /\ Clean(j)
        /\ status[k] = 500 /\ file_count[k] >= 1 /\ Clean(k)

\* C2: every item of the resolved listing is attempted exactly once, in
\* order, whatever the items before it did; the success count is the number
\* of items that succeeded, so N - 1 when exactly one of N items failed.
C2_Isolation ==
    \A j \in ZipJobs :
        video_urls[j] # <<>> =>
            /\ Len(results[j]) = idx[j] - 1
            /\ \A i \in 1..Len(results[j]) : results[j][i].idx = i
            /\ Downloaded(j) => Len(results[j]) = Len(video_urls[j])
            /\ successful_downloads[j] = Cardinality(Successes(j))
            /\ Downloaded(j) /\ Cardinality(Failures(j)) = 1 =>
                  successful_downloads[j] = Len(video_urls[j]) - 1

C2_Witness ==
    \E j \in ZipJobs :
        /\ Downloaded(j)
        /\ Len(video_urls[j]) >= 2
        /\ Failures(j) = {1}
        /\ successful_downloads[j] = Len(video_urls[j]) - 1

\* C3 as stated: a job with at least one downloaded item returns the 200
\* response; an error response comes only from a job that downloaded nothing.
C3_SuccessImplies200 ==
    \A j \in ZipJobs :
        status[j] # 0 /\ successful_downloads[j] >= 1 => status[j] = 200

\* C3 amended: a job with at least one downloaded item returns the 200
\* response exactly when packaging and upload both succeed, and the 500
\* response when either of them fails; the 200 response is never returned by
\* a job that downloaded nothing.
C3_SuccessUnlessPackagingFails ==
    \A j \in ZipJobs :
        /\ status[j] # 0 /\ successful_downloads[j] >= 1 =>
              IF r2_key(random_id[j]) \in bucket
              THEN status[j] = 200 /\ file_count[j] >= 1
              ELSE status[j] = 500
        /\ status[j] = 200 => successful_downloads[j] >= 1

C3_Witness ==
    \E j, k \in ZipJobs :
        /\ status[j] = 200 /\ Failures(j) # {} /\ Successes(j) # {}
        /\ status[k] = 500 /\ successful_downloads[k] >= 1

\* C4: a job whose success count is 0 after the download loop never packs,
\* uploads or returns the 200 response; it ends with the 500 response
\* "could not download any videos".  Packaging starts only with a success
\* count of at least 1.
C4_AllFailed ==
    \A j \in ZipJobs :
        /\ Downloaded(j) /\ successful_downloads[j] = 0 =>
              /\ pc[j] = "done"
              /\ status[j] = 500
              /\ detail[j] = "could not download any videos"
              /\ file_count[j] = 0
              /\ ~ZipExists(fs, random_id[j])
              /\ r2_key(random_id[j]) \notin bucket
              /\ ~background[j]
        /\ pc[j] \in {"zip", "upload", "sent"} => successful_downloads[j] >= 1

C4_Witness ==
    \E j \in ZipJobs :
        /\ Len(results[j]) >= 2
        /\ Downloaded(j)
        /\ successful_downloads[j] = 0
        /\ status[j] = 500

\* C5: when extract_video_urls returns an empty list, the job ends with the
\* 400 response "no videos found on page" and no item was downloaded,
\* nothing was packed and nothing was uploaded.
C5_NoItems ==
    \A j \in ZipJobs :
        resolved[j] = "returned" /\ video_urls[j] = <<>> =>
            /\ pc[j] = "done"
            /\ status[j] = 400
            /\ detail[j] = "no videos found on page"
            /\ results[j] = <<>>
            /\ successful_downloads[j] = 0
            /\ file_count[j] = 0
            /\ Clean(j)
            /\ r2_key(random_id[j]) \notin bucket
            /\ ~background[j]

C5_Witness ==
    \E j \in ZipJobs :
        resolved[j] = "returned" /\ video_urls[j] = <<>> /\ status[j] = 400

PackagingFailed(j) == Downloaded(j) /\ successful_downloads[j] >= 1 /\ file_count[j] = 0
UploadFailed(j) == file_count[j] >= 1 /\ r2_key(random_id[j]) \notin bucket

\* C7: a job whose packaging or upload failed ends with the 500 response
\* "internal server error" and not with the success response; and whenever a
\* job has ended in any failure (400, 502, 500) its staging directory and
\* archive are already removed and no background cleanup is pending.
C7_JobFatal ==
    \A j \in ZipJobs :
        /\ pc[j] \in {"sent", "done"} /\ (PackagingFailed(j) \/ UploadFailed(j)) =>
              /\ status[j] = 500
              /\ detail[j] = "internal server error"
              /\ pc[j] = "done"
        /\ status[j] \in FailureStatus =>
              /\ Clean(j)
              /\ pc[j] = "done"
              /\ ~background[j]

C7_Witness ==
    \E j, k \in ZipJobs :
        /\ pc[j] = "done" /\ PackagingFailed(j) /\ status[j] = 500 /\ Clean(j)
        /\ pc[k] = "done" /\ UploadFailed(k) /\ status[k] = 500 /\ Clean(k)

\* C8: on both endpoints an extraction that raises ends the request with 502
\* and one that returns an empty list ends it with 400; the 500 response is
\* given only after a non-empty listing was resolved.
C8_ResolutionFailure ==
    \A j \in Jobs :
        /\ resolved[j] = "raised" => status[j] = 502
        /\ resolved[j] = "returned" /\ video_urls[j] = <<>> => status[j] = 400
        /\ status[j] = 502 => resolved[j] = "raised"
        /\ status[j] = 500 => resolved[j] = "returned" /\ video_urls[j] # <<>>

C8_Witness ==
    \E j, k \in Jobs :
        /\ endpoint[j] = "zip" /\ resolved[j] = "raised" /\ status[j] = 502
        /\ endpoint[k] = "urls" /\ resolved[k] = "returned" /\ status[k] = 400

\* ---------------------------------------- extract_video_urls (ExtractSpec)

\* An entry extract_video_urls takes a reference from, and that reference.
HasRef(e) == ~e.falsy /\ (e.url # Absent \/ e.id # Absent)
RefOf(e) == IF e.url # Absent THEN Url(e.url) ELSE RumbleUrl(e.id)
Usable(entries) == SelectSeq(entries, HasRef)

\* The first n references of a listing, in listing order.
FirstRefs(entries, n) ==
    [i \in 1..Min(n, Len(Usable(entries))) |-> RefOf(Usable(entries)[i])]

Collection(result) == result.tag = "info" /\ result.has_entries

\* C9: a call of extract_video_urls asks the listing capability for exactly
\* max_videos items (playlistend), returns at most max_videos references,
\* and for a collection of any number of entries these are the references of
\* its first entries, in listing order.
C9_FirstEntries ==
    ex_state.called /\ ~ex_out.raised =>
        /\ ex_state.playlistend = ex_state.max_videos
        /\ Len(ex_out.urls) <= ex_state.max_videos
        /\ Collection(ex_state.result) =>
              ex_out.urls = FirstRefs(ex_state.result.entries, ex_state.max_videos)

\* C10: for a collection whose entry list is empty, extract_video_urls does
\* not raise and returns the empty sequence.
C10_EmptyListing ==
    ex_state.called /\ Collection(ex_state.result) /\ ex_state.result.entries = <<>> =>
        ~ex_out.raised /\ ex_out.urls = <<>>

\* A result of the capability that is one page, not a collection, and that
\* carries a reference of its own ("url" or "id").
SinglePage(result) ==
    result.tag = "info" /\ ~result.has_entries /\ (result.url # Absent \/ result.id # Absent)

\* C11: for a single non-collection page extract_video_urls returns a
\* one-element sequence holding the page's own reference (its "url", or
\* https://rumble.com/<id> when it has only an "id").
C11_SinglePage ==
    ex_state.called /\ SinglePage(ex_state.result) =>
        /\ ~ex_out.raised
        /\ Len(ex_out.urls) = 1
        /\ ex_out.urls[1] = RefOf(ex_state.result)

C11_Witness ==
    /\ ex_state.called
    /\ SinglePage(ex_state.result)
    /\ ex_state.result.url = Absent
    /\ ex_out.urls = <<RumbleUrl(ex_state.result.id)>>

\* ------------------------------------------------------ concurrent jobs

\* What storage f and bucket b hold under job id's names: tmp/<id>, the
\* files in it, tmp/<id>.zip and rumble_zips/<id>.zip.
Artifacts(f, b, id) ==
    [dir   |-> id \in f.dirs,
     files |-> FilesOf(f, id),
     zip   |-> {z \in f.zips : z.id = id},
     key   |-> r2_key(id) \in b]

\* Request k takes the step.
Stepped(k) == pc'[k] # pc[k] \/ idx'[k] # idx[k]

DistinctNames ==
    \A j, k \in ZipJobs :
        j # k =>
            /\ random_id[j] # random_id[k]
            /\ r2_key(random_id[j]) # r2_key(random_id[k])
            /\ \A i, n \in 1..MAX_VIDEOS_MAX :
                  output_path(random_id[j], i) # output_path(random_id[k], n)
            /\ FilesOf(fs, random_id[j]) \cap FilesOf(fs, random_id[k]) = {}

\* The archive a job has just written holds its own directory's files only.
PacksOwnFiles ==
    \A j \in ZipJobs :
        pc[j] = "upload" => file_count[j] = Cardinality(FilesOf(fs, random_id[j]))

OthersUntouched ==
    \A k \in ZipJobs :
        ~Stepped(k) =>
            Artifacts(fs', bucket', random_id[k]) = Artifacts(fs, bucket, random_id[k])

\* C12: two jobs never share a staging directory, an archive path or an
\* object-store key, and a step of one job (download, packaging, failure
\* cleanup, background cleanup) leaves the directory, the files, the archive
\* and the key of every other job as they were.
C12_JobsIsolated ==
    /\ [](DistinctNames /\ PacksOwnFiles)
    /\ [][OthersUntouched]_vars

C12_Witness ==
    \E j, k \in ZipJobs :
        /\ j # k
        /\ pc[k] = "done" /\ successful_downloads[k] >= 1 /\ Clean(k)
        /\ pc[j] = "upload"
        /\ ZipExists(fs, random_id[j])
        /\ FilesOf(fs, random_id[j]) # {}

\* ------------------------------------------------------ /api/rumble-urls

UrlsJobs == {j \in Jobs : endpoint[j] = "urls"}

\* A list-only request holds no staging directory, has downloaded, packed
\* and queued nothing, and its 200 response carries the resolved references.
ListOnlyState ==
    \A j \in UrlsJobs :
        /\ random_id[j] = NoId
        /\ results[j] = <<>> /\ idx[j] = 0 /\ successful_downloads[j] = 0
        /\ file_count[j] = 0
        /\ ~background[j]
        /\ pc[j] \in {"extract", "done"}
        /\ status[j] = 200 =>
              /\ body[j].urls = video_urls[j]
              /\ body[j].count = Len(video_urls[j])
              /\ video_urls[j] # <<>>

\* A step of a list-only request leaves local storage and the bucket alone.
ListOnlyStep ==
    \A j \in Jobs :
        endpoint'[j] = "urls" /\ Stepped(j) => fs' = fs /\ bucket' = bucket

\* C13: /api/rumble-urls returns the resolved references and nothing else
\* happens: on its success path and on its 400 and 502 paths it creates no
\* staging directory or archive, downloads no item and writes nothing to the
\* object store.
C13_ListOnly ==
    /\ []ListOnlyState
    /\ [][ListOnlyStep]_vars

C13_Witness ==
    \E j, k \in UrlsJobs :
        /\ status[j] = 200 /\ Len(body[j].urls) >= 2
        /\ status[k] = 502
        /\ fs = EmptyFs /\ bucket = {}

\* ------------------------------------------------------ request validation

\* A page_url that is an absolute http or https URL with a host.
WellFormedUrl(u) == ~u.blank /\ u.scheme \in {"http", "https"} /\ u.host # ""

\* A max_videos within the deployment cap.
InRange(n) == n \in 1..10

InvalidRequest(j) ==
    pc[j] # "idle" /\ ~(WellFormedUrl(received[j].url) /\ InRange(received[j].max_videos))

\* C14: a request whose page_url is malformed or whose max_videos is outside
\* 1..10 is rejected before the handler runs: no listing extraction, no
\* staging directory, no download, no archive, no upload, no background task.
C14_RejectedBeforeResolution ==
    \A j \in Jobs :
        InvalidRequest(j) =>
            /\ pc[j] = "done"
            /\ status[j] = 422
            /\ resolved[j] = "pending"
            /\ random_id[j] = NoId
            /\ video_urls[j] = <<>>
            /\ results[j] = <<>>
            /\ file_count[j] = 0
            /\ ~background[j]

C14_Witness ==
    \E j, k \in Jobs :
        /\ endpoint[j] = "zip" /\ endpoint[k] = "zip"
        /\ WellFormedUrl(received[j].url) /\ received[j].max_videos = 11
        /\ ~WellFormedUrl(received[k].url) /\ InRange(received[k].max_videos)
        /\ status[j] = 422 /\ status[k] = 422
        /\ fs = EmptyFs /\ bucket = {}

\* ------------------------------------------------------ order of a job's states

\* The job states of a /api/rumble-zip request, by where the handler is:
\* extract is Created/Resolving, download is Downloading, zip is Packaging,
\* upload is Uploading, sent and done with status 200 are Completed, done
\* with another status is Failed.
Failed(j) == pc[j] = "done" /\ status[j] # 200
FailedNext(j) == pc'[j] = "done" /\ status'[j] # 200

\* The steps a job may take: forward along the order, or out to Failed.
InOrder(j) ==
    \/ pc'[j] = pc[j]
    \/ pc[j] = "idle"     /\ (pc'[j] = "extract" \/ FailedNext(j))
    \/ pc[j] = "extract"  /\ (pc'[j] = "download" \/ FailedNext(j))
    \/ pc[j] = "download" /\ (pc'[j] = "zip" \/ FailedNext(j))
    \/ pc[j] = "zip"      /\ (pc'[j] = "upload" \/ FailedNext(j))
    \/ pc[j] = "upload"   /\ ((pc'[j] = "sent" /\ status'[j] = 200) \/ FailedNext(j))
    \/ pc[j] = "sent"     /\ pc'[j] = "done" /\ status'[j] = 200

\* What each state presupposes.
StateOrder ==
    \A j \in ZipJobs :
        /\ results[j] # <<>> => resolved[j] = "returned"
        /\ pc[j] = "download" => resolved[j] = "returned" /\ status[j] = 0
        /\ pc[j] \in {"zip", "upload", "sent"} =>
              /\ Len(results[j]) = Len(video_urls[j])
              /\ \A i \in 1..Len(video_urls[j]) : results[j][i].idx = i
        /\ pc[j] \in {"extract", "download", "zip"} => ~ZipExists(fs, random_id[j])
        /\ pc[j] = "upload" =>
              /\ \E z \in fs.zips : z.id = random_id[j] /\ z.complete
              /\ r2_key(random_id[j]) \notin bucket
              /\ status[j] = 0
        /\ status[j] = 200 =>
              /\ pc[j] \in {"sent", "done"}
              /\ r2_key(random_id[j]) \in bucket
              /\ Len(results[j]) = Len(video_urls[j])

\* C15: a job moves only forward through Created, Resolving, Downloading,
\* Packaging, Uploading, Completed, or out to Failed; no item is downloaded
\* before the listing is resolved, packaging starts only after every item
\* was attempted, the upload only once the archive is complete, and the 200
\* response is produced only after the upload succeeded.
C15_StateOrder ==
    /\ []StateOrder
    /\ [][\A j \in Jobs : endpoint'[j] = "zip" => InOrder(j)]_vars

C15_Witness ==
    \E j \in ZipJobs :
        /\ pc[j] = "done" /\ status[j] = 200
        /\ Len(results[j]) >= 2
        /\ r2_key(random_id[j]) \in bucket
        /\ Clean(j)

\* ------------------------------------------------------ archive members

\* The archive tmp/<id>.zip of job j.
ZipOf(j) == CHOOSE z \in fs.zips : z.id = random_id[j]

Handler(j) ==
    \/ ListUrls(j)
    \/ Extract(j)
    \/ Download(j)
    \/ Zip(j)
    \/ Upload(j)
    \/ BackgroundCleanup(j)

\* Every call the handler waits for (extract_info, download, the archive
\* write, upload_file) returns or raises, and the background task is run.
FairSpec == Spec /\ \A j \in Jobs : WF_vars(Handler(j))

\* An accepted /api/rumble-zip job is inside its handler until it responds.
Running(j) == endpoint[j] = "zip" /\ pc[j] \in {"extract", "download", "zip", "upload"}
Outcome(j) == status[j] \in {200, 400, 502, 500}

\* A job that is accepted and no longer running has its outcome.
Responded ==
    \A j \in ZipJobs : ~Running(j) => Outcome(j) /\ pc[j] \in {"sent", "done"}

\* The download loop makes at most max_videos attempts, and max_videos <= 10.
BoundedLoop ==
    \A j \in ZipJobs :
        /\ max_videos[j] <= 10
        /\ Len(video_urls[j]) <= max_videos[j]
        /\ Len(results[j]) <= max_videos[j]

\* A response, once given, is the job's only one.
OneOutcome == \A j \in Jobs : status[j] # 0 => status'[j] = status[j]

\* C17: every accepted /api/rumble-zip job eventually has exactly one
\* outcome, the 200 response or a 400, 502 or 500 failure, and its download
\* loop makes at most max_videos (<= 10) attempts.
C17_Terminates ==
    /\ \A j \in Jobs : <>[](~Running(j))
    /\ [](Responded /\ BoundedLoop)
    /\ [][OneOutcome]_vars

C17_Witness ==
    \E j, k \in ZipJobs :
        /\ status[j] = 200 /\ Len(results[j]) = max_videos[j]
        /\ status[k] = 500 /\ Len(results[k]) >= 1 /\ Len(results[k]) < max_videos[k]

====
